---- MODULE Spec2Model ----
(***************************************************************************)
(* Model of src/multiple_lights.cpp ("Kinetic Sculpture"): the startup and *)
(* teardown of main, the frame loop with its animation clock and pause     *)
(* toggle, the camera callbacks, and the sculpture grid positions.         *)
(*                                                                         *)
(* Units.  Wall-clock time, dt and animTime are counted in integer ticks.  *)
(* Cursor positions are whole pixels; yaw and pitch are kept in tenths of  *)
(* a degree, so that the sensitivity 0.1f of Camera::look is one tenth per *)
(* pixel; zoom is in whole degrees.  The grid coordinates of the sculpture *)
(* are IEEE-754 binary32 values, kept as integers in units of 2^-23.       *)
(***************************************************************************)
EXTENDS Integers, Sequences, FiniteSets, TLC

\* ------------------------------------------------------------------ bounds
MaxTime == 4          \* the wall clock stops advancing at this tick
MaxDt == 2            \* largest wall-clock advance between two frames
MaxCursor == 1        \* cursor positions are k * step, k in -MaxCursor..MaxCursor
CursorStepX == 2500   \* pixels between the modelled cursor columns
CursorStepY == 500    \* pixels between the modelled cursor rows
MaxScroll == 3        \* largest scroll offset of one scroll event

\* ------------------------------------------------------- program constants
SCR_W == 1280
SCR_H == 720
PitchLimit == 890     \* 89.0f degrees, in tenths
ZoomMin == 1
ZoomMax == 90
YawInit == 0 - 900    \* yaw = -90
ZoomInit == 45

RELEASE == "RELEASE"
PRESS == "PRESS"
KeyStates == {RELEASE, PRESS}

VARIABLES
    \* main: position, process result, library and GPU objects
    pc, exitCode, glfw, res, linked, diag, failed,
    \* window state held by GLFW: cached keys and the close flag
    spaceKey, escKey, shouldClose,
    \* globals of the frame loop and the static of processInput
    wall, lastFrame, dt, animTime, paused, prev,
    \* history of the clock, for stating the clock properties
    pausedWall, runSum, frameStartPaused, headAnim,
    \* camera and mouse globals
    yaw, pitch, zoom, lastX, lastY, firstMouse,
    \* sculpture grid: loop indices and the values computed for the cell
    grow, gcol, build, gx, gz, dd, gdone

mainVars == <<pc, exitCode, glfw, res, linked, diag, failed>>
keyVars == <<spaceKey, escKey, shouldClose>>
clockVars == <<wall, lastFrame, dt, animTime, paused, prev>>
histVars == <<pausedWall, runSum, frameStartPaused, headAnim>>
camVars == <<yaw, pitch, zoom, lastX, lastY, firstMouse>>
gridVars == <<grow, gcol, build, gx, gz, dd, gdone>>
vars == <<mainVars, keyVars, clockVars, histVars, camVars, gridVars>>

Min(a, b) == IF a < b THEN a ELSE b
Max(a, b) == IF a > b THEN a ELSE b

\* glm::clamp(x, lo, hi) = min(max(x, lo), hi)
clamp(x, lo, hi) == Min(Max(x, lo), hi)

GpuObjects == {"prog", "lightProg", "VBO", "cubeVAO", "lightVAO"}
Resources == GpuObjects \cup {"window"}
LoopPcs == {"head", "time", "input", "draw", "swap", "poll"}

\* ------------------------------------------------- shader helpers (pure)
\* compileShader: a failed compile is logged to cerr; the id is returned
\* either way.  The result is the set of messages written.
compileShaderSilent(ok) == {}
compileShader(ok) == IF ok THEN {} ELSE {"SHADER ERROR"}

\* makeProgram: two compiles, a link whose failure is logged, the program
\* object returned either way.
makeProgram(vsOk, fsOk, linkOk) ==
    [log |-> compileShader(vsOk) \cup compileShader(fsOk)
               \cup (IF linkOk THEN {} ELSE {"LINK ERROR"}),
     linked |-> linkOk,
     failures |-> (IF vsOk /\ fsOk THEN {} ELSE {"compile"})
                    \cup (IF linkOk THEN {} ELSE {"link"})]

\* The outcomes the GL implementation can give one makeProgram call: a
\* program links only if both of its shaders compiled.
ShaderOutcomes ==
    {o \in [vs : BOOLEAN, fs : BOOLEAN, link : BOOLEAN] :
        o.link => (o.vs /\ o.fs)}

\* ------------------------------------------------------- frame-loop helpers
\* while (!glfwWindowShouldClose(win))
loopExitsNever(sc) == FALSE
loopExits(sc) == sc

\* if (!paused) animTime += dt;
advanceAlways(p, a, d) == a + d
advanceWhenPaused(p, a, d) == IF p THEN a + d ELSE a
advanceAnim(p, a, d) == IF p THEN a ELSE a + d

\* lastFrame = now;  (every frame, paused or not)
lastFrameOnlyRunning(p, old, now) == IF p THEN old ELSE now
nextLastFrame(p, old, now) == now

\* if (cur == GLFW_PRESS && prev == GLFW_RELEASE) paused = !paused;
toggleOnLevel(cur, pr, p) == IF cur = PRESS THEN ~p ELSE p
togglePause(cur, pr, p) == IF cur = PRESS /\ pr = RELEASE THEN ~p ELSE p

\* ------------------------------------------------------------------- Init
InitMain ==
    /\ pc = "start"
    /\ exitCode = "running"
    /\ glfw = "uninit"
    /\ res = [r \in Resources |-> "none"]
    /\ linked = [p \in {"prog", "lightProg"} |-> FALSE]
    /\ diag = {}
    /\ failed = {}
    /\ spaceKey = RELEASE
    /\ escKey = RELEASE
    /\ shouldClose = FALSE

InitClock ==
    /\ wall = 0
    /\ lastFrame = 0
    /\ dt = 0
    /\ animTime = 0
    /\ paused = FALSE
    /\ prev = RELEASE
    /\ pausedWall = 0
    /\ runSum = 0
    /\ frameStartPaused = FALSE
    /\ headAnim = 0

InitCamera ==
    /\ yaw = YawInit
    /\ pitch = 0
    /\ zoom = ZoomInit
    /\ lastX = SCR_W \div 2
    /\ lastY = SCR_H \div 2
    /\ firstMouse = TRUE

\* ------------------------------------------------------------ main: startup
\* glfwInit .. glfwSetInputMode: the window either exists or main returns -1
\* after glfwTerminate.
CreateWindow ==
    /\ pc = "start"
    /\ \E ok \in BOOLEAN :
        IF ok
        THEN /\ glfw' = "live"
             /\ res' = [res EXCEPT !["window"] = "live"]
             /\ pc' = "glad"
             /\ UNCHANGED <<exitCode, failed>>
        ELSE /\ glfw' = "terminated"
             /\ failed' = failed \cup {"window"}
             /\ pc' = "exit"
             /\ exitCode' = "-1"
             /\ UNCHANGED res
    /\ UNCHANGED <<linked, diag, keyVars, clockVars, histVars, camVars, gridVars>>

\* gladLoadGLLoader: on failure "GLAD failed" is written and main returns -1
\* (without glfwTerminate).
LoadGL ==
    /\ pc = "glad"
    /\ \E ok \in BOOLEAN :
        IF ok
        THEN /\ pc' = "prog"
             /\ UNCHANGED <<exitCode, diag, failed>>
        ELSE /\ diag' = diag \cup {"GLAD failed"}
             /\ failed' = failed \cup {"glad"}
             /\ pc' = "exit"
             /\ exitCode' = "-1"
    /\ UNCHANGED <<glfw, res, linked, keyVars, clockVars, histVars, camVars, gridVars>>

\* GLuint prog = makeProgram(VERT_SRC, FRAG_SRC);
\* GLuint lightProg = makeProgram(LIGHT_VERT, LIGHT_FRAG);
BuildProgram(name, at, next) ==
    /\ pc = at
    /\ \E o \in ShaderOutcomes :
        LET r == makeProgram(o.vs, o.fs, o.link) IN
        /\ res' = [res EXCEPT ![name] = "live"]
        /\ linked' = [linked EXCEPT ![name] = r.linked]
        /\ diag' = diag \cup r.log
        /\ failed' = failed \cup r.failures
    /\ pc' = next
    /\ UNCHANGED <<exitCode, glfw, keyVars, clockVars, histVars, camVars, gridVars>>

BuildProg == BuildProgram("prog", "prog", "lightProg")
BuildLightProg == BuildProgram("lightProg", "lightProg", "buffers")

\* glGenBuffers / glGenVertexArrays x2 and their setup
CreateBuffers ==
    /\ pc = "buffers"
    /\ res' = [res EXCEPT !["VBO"] = "live", !["cubeVAO"] = "live",
                          !["lightVAO"] = "live"]
    /\ pc' = "head"
    /\ UNCHANGED <<exitCode, glfw, linked, diag, failed,
                   keyVars, clockVars, histVars, camVars, gridVars>>

\* --------------------------------------------------------- main: frame loop
LoopHead ==
    /\ pc = "head"
    /\ pc' = IF loopExits(shouldClose) THEN "teardown" ELSE "time"
    /\ frameStartPaused' = paused
    /\ headAnim' = animTime
    /\ UNCHANGED <<exitCode, glfw, res, linked, diag, failed, keyVars,
                   clockVars, pausedWall, runSum, camVars, gridVars>>

\* float now = glfwGetTime(); dt = now - lastFrame; lastFrame = now;
\* if (!paused) animTime += dt;
FrameTime ==
    /\ pc = "time"
    /\ \E now \in wall .. Min(wall + MaxDt, Max(wall, MaxTime)) :
        /\ wall' = now
        /\ dt' = now - lastFrame
        /\ lastFrame' = nextLastFrame(paused, lastFrame, now)
        /\ animTime' = advanceAnim(paused, animTime, now - lastFrame)
        /\ pausedWall' = pausedWall + (IF paused THEN now - wall ELSE 0)
        /\ runSum' = runSum + (IF frameStartPaused THEN 0 ELSE now - lastFrame)
    /\ pc' = "input"
    /\ UNCHANGED <<exitCode, glfw, res, linked, diag, failed, keyVars,
                   paused, prev, frameStartPaused, headAnim, camVars, gridVars>>

\* processInput: ESC requests the close; SPACE toggles the pause on its
\* rising edge; prev remembers the sample.  (The movement keys change only
\* cam.pos, which is not modelled.)
processInput ==
    /\ pc = "input"
    /\ shouldClose' = IF escKey = PRESS THEN TRUE ELSE shouldClose
    /\ paused' = togglePause(spaceKey, prev, paused)
    /\ prev' = spaceKey
    /\ pc' = "draw"
    /\ UNCHANGED <<exitCode, glfw, res, linked, diag, failed, spaceKey, escKey,
                   wall, lastFrame, dt, animTime, histVars, camVars, gridVars>>

\* glClear .. the two draw passes
Draw ==
    /\ pc = "draw"
    /\ pc' = "swap"
    /\ UNCHANGED <<exitCode, glfw, res, linked, diag, failed,
                   keyVars, clockVars, histVars, camVars, gridVars>>

\* glfwSwapBuffers(win);
SwapBuffers ==
    /\ pc = "swap"
    /\ pc' = "poll"
    /\ UNCHANGED <<exitCode, glfw, res, linked, diag, failed,
                   keyVars, clockVars, histVars, camVars, gridVars>>

\* glfwPollEvents(): the cached key states follow the key events received,
\* and a window-close event sets the close flag.
PollEvents ==
    /\ pc = "poll"
    /\ spaceKey' \in KeyStates
    /\ escKey' \in KeyStates
    /\ \E closeEvent \in BOOLEAN : shouldClose' = (shouldClose \/ closeEvent)
    /\ pc' = "head"
    /\ UNCHANGED <<exitCode, glfw, res, linked, diag, failed,
                   clockVars, histVars, camVars, gridVars>>

\* glDeleteVertexArrays x2, glDeleteBuffers, glfwTerminate, return 0
Teardown ==
    /\ pc = "teardown"
    /\ res' = [res EXCEPT !["cubeVAO"] = "released", !["lightVAO"] = "released",
                          !["VBO"] = "released", !["window"] = "released"]
    /\ glfw' = "terminated"
    /\ exitCode' = "0"
    /\ pc' = "exit"
    /\ UNCHANGED <<linked, diag, failed, keyVars, clockVars, histVars,
                   camVars, gridVars>>

\* --------------------------------------------------------------- camera
\* Camera::look: yaw += dx * 0.1f; pitch = clamp(pitch + dy * 0.1f, -89, 89)
\* (dx, dy in pixels; yaw, pitch in tenths of a degree).  front is a function
\* of yaw and pitch and is not kept.
lookYaw(y, dx) == y + dx
lookPitchUnclamped(p, dy) == p + dy
lookPitch(p, dy) == clamp(p + dy, 0 - PitchLimit, PitchLimit)

\* scroll_callback: cam.zoom = clamp(cam.zoom - yo, 1, 90)
scrollZoomUnclamped(z, yo) == z - yo
scrollZoom(z, yo) == clamp(z - yo, ZoomMin, ZoomMax)

\* mouse_callback, first statement: the position the delta is measured from.
\* if (firstMouse) { lastX = x; lastY = y; firstMouse = false; }
mouseBaseIgnoringFirst(first, last, cur) == last
mouseBase(first, last, cur) == IF first THEN cur ELSE last

CursorXs == {k * CursorStepX : k \in (0 - MaxCursor) .. MaxCursor}
CursorYs == {k * CursorStepY : k \in (0 - MaxCursor) .. MaxCursor}
ScrollOffsets == (0 - MaxScroll) .. MaxScroll

\* GLFW runs the callbacks from glfwPollEvents, on the thread of main.
mouse_callback ==
    /\ pc = "poll"
    /\ \E x \in CursorXs, y \in CursorYs :
        LET bx == mouseBase(firstMouse, lastX, x)
            by == mouseBase(firstMouse, lastY, y)
        IN  /\ yaw' = lookYaw(yaw, x - bx)
            /\ pitch' = lookPitch(pitch, by - y)
            /\ lastX' = x
            /\ lastY' = y
            /\ firstMouse' = FALSE
    /\ UNCHANGED <<zoom, mainVars, keyVars, clockVars, histVars, gridVars>>

scroll_callback ==
    /\ pc = "poll"
    /\ \E yo \in ScrollOffsets : zoom' = scrollZoom(zoom, yo)
    /\ UNCHANGED <<yaw, pitch, lastX, lastY, firstMouse,
                   mainVars, keyVars, clockVars, histVars, gridVars>>

\* ----------------------------------------- binary32 arithmetic (helpers)
\* A binary32 value of the grid is an integer count of 2^-23 (all of them
\* have magnitude >= 1, so none needs a finer unit).  Products of two such
\* values count 2^-46 and do not fit 32-bit integers: they are
\* kept as two limbs <<H, L>> = H * 2^28 + L, and once rounded to binary32
\* as <<m, e>> = m * 2^e with m < 2^24.
Abs(v) == IF v < 0 THEN 0 - v ELSE v

RECURSIVE BitLen(_)
BitLen(n) == IF n = 0 THEN 0 ELSE 1 + BitLen(n \div 2)

\* round to nearest binary32, ties to even (the default rounding mode)
RoundF(v) ==
    LET a == Abs(v)
        s == Max(BitLen(a) - 24, 0)
        q == a \div (2 ^ s)
        r == a % (2 ^ s)
        up == (2 * r > 2 ^ s) \/ (2 * r = 2 ^ s /\ q % 2 = 1)
        m == (q + (IF up THEN 1 ELSE 0)) * (2 ^ s)
    IN  IF v < 0 THEN 0 - m ELSE m

\* exact square of a, 0 <= a < 2^28, as two limbs
Sq2(a) ==
    LET h == a \div (2 ^ 14)
        l == a % (2 ^ 14)
        mid == 2 * h * l
        lsum == (mid % (2 ^ 14)) * (2 ^ 14) + l * l
    IN  <<h * h + mid \div (2 ^ 14) + lsum \div (2 ^ 28), lsum % (2 ^ 28)>>

ToLimbs(f) ==
    IF f[2] < 28
    THEN <<f[1] \div (2 ^ (28 - f[2])), (f[1] % (2 ^ (28 - f[2]))) * (2 ^ f[2])>>
    ELSE <<f[1] * (2 ^ (f[2] - 28)), 0>>

Add2(x, y) ==
    LET l == x[2] + y[2]
    IN  <<x[1] + y[1] + l \div (2 ^ 28), l % (2 ^ 28)>>

Less2(x, y) == x[1] < y[1] \/ (x[1] = y[1] /\ x[2] < y[2])

\* round a two-limb value to binary32, ties to even
RoundLimbs(x) ==
    LET H == x[1]
        L == x[2]
        bits == IF H = 0 THEN BitLen(L) ELSE 28 + BitLen(H)
        s == Max(bits - 24, 0)
        t == s - 28
        q == IF s <= 28 THEN H * (2 ^ (28 - s)) + L \div (2 ^ s)
                        ELSE H \div (2 ^ t)
        up == IF s = 0 THEN FALSE
              ELSE IF s <= 28
              THEN LET r == L % (2 ^ s)
                       half == 2 ^ (s - 1)
                   IN  r > half \/ (r = half /\ q % 2 = 1)
              ELSE LET rH == H % (2 ^ t)
                       half == 2 ^ (t - 1)
                   IN  rH > half \/ (rH = half /\ (L > 0 \/ q % 2 = 1))
        m == q + (IF up THEN 1 ELSE 0)
    IN  IF m = 2 ^ 24 THEN <<2 ^ 23, s + 1>> ELSE <<m, s>>

RECURSIVE SqrtFloor(_, _, _)
SqrtFloor(N, r, bit) ==
    IF bit = 0 THEN r
    ELSE CHOOSE root \in
            {SqrtFloor(N, nr, bit \div 2) :
                nr \in {IF Less2(N, Sq2(r + bit)) THEN r ELSE r + bit}} : TRUE

\* sqrtf: the correctly rounded square root of the binary32 value f = <<m, e>>
\* (counting 2^-46); the result counts 2^-23.  A square root of a binary32
\* value is never half-way between two binary32 values, so no tie arises.
\* SqrtFloor finds floor(sqrt N) bit by bit, from the top bit down.
sqrtf(f) ==
    LET r0 == SqrtFloor(ToLimbs(f), 0, 2 ^ 27)
        q == 2 ^ Max(BitLen(r0) - 24, 0)
        lo == (r0 \div q) * q
    IN  IF Less2(Sq2(2 * lo + q), ToLimbs(<<f[1], f[2] + 2>>)) THEN lo + q ELSE lo

\* --------------------------------------------------------- sculpture grid
GRID == 10
SPACING == 18454938      \* 2.2f = 0x400CCCCD = 9227469 * 2^-22

\* How the build evaluates a * b + c: each operation rounded on its own, or
\* contracted into one fused multiply-add (one rounding).  A build may
\* contract the coordinate expression, the distance expression, or both.
Builds == {"separate", "fusedCoord", "fusedDist", "fused"}
FusesCoord(b) == b \in {"fusedCoord", "fused"}
FusesDist(b) == b \in {"fusedDist", "fused"}

\* float off = (GRID - 1) * SPACING * 0.5f;   (the halving is exact)
gridOffset == RoundF((GRID - 1) * SPACING) \div 2

\* float gx = col * SPACING - off;  float gz = row * SPACING - off;
gridCoordOffByOne(b, i) == RoundF(RoundF((i + 1) * SPACING) - gridOffset)
gridCoord(b, i) ==
    IF FusesCoord(b)
    THEN RoundF(i * SPACING - gridOffset)
    ELSE RoundF(RoundF(i * SPACING) - gridOffset)

\* float d = sqrtf(gx * gx + gz * gz);
gridDist(b, x, z) ==
    LET sx == Sq2(Abs(x))
        tz == ToLimbs(RoundLimbs(Sq2(Abs(z))))
        sum == IF FusesDist(b) THEN Add2(sx, tz)
                              ELSE Add2(ToLimbs(RoundLimbs(sx)), tz)
    IN  sqrtf(RoundLimbs(sum))

Cells == (0 .. GRID - 1) \X (0 .. GRID - 1)

InitGridIdle ==
    /\ grow = 0
    /\ gcol = 0
    /\ build = "separate"
    /\ gx = 0
    /\ gz = 0
    /\ dd = 0
    /\ gdone = FALSE

\* one iteration of the body of "for row .. for col .." in the draw pass
sculptureCell ==
    /\ pc = "draw"
    /\ ~gdone
    /\ gx' = gridCoord(build, gcol)
    /\ gz' = gridCoord(build, grow)
    /\ dd' = gridDist(build, gridCoord(build, gcol), gridCoord(build, grow))
    /\ gdone' = TRUE
    /\ UNCHANGED <<grow, gcol, build, mainVars, keyVars, clockVars, histVars, camVars>>

\* --------------------------------------------------------- specifications
Init == InitMain /\ InitClock /\ InitCamera /\ InitGridIdle

Next ==
    \/ CreateWindow
    \/ LoadGL
    \/ BuildProg
    \/ BuildLightProg
    \/ CreateBuffers
    \/ LoopHead
    \/ FrameTime
    \/ processInput
    \/ Draw
    \/ SwapBuffers
    \/ PollEvents
    \/ Teardown

Spec == Init /\ [][Next]_vars

\* main runs on its own thread and every call it makes returns: a step that
\* is enabled is eventually taken.
FairSpec == Spec /\ WF_vars(Next)

\* The program inside the frame loop after a startup without failures, at
\* position p of the first frame (clock still at zero, no key pressed).
FirstFrameAt(p) ==
    /\ pc = p
    /\ exitCode = "running"
    /\ glfw = "live"
    /\ res = [r \in Resources |-> "live"]
    /\ linked = [q \in {"prog", "lightProg"} |-> TRUE]
    /\ diag = {}
    /\ failed = {}
    /\ spaceKey = RELEASE
    /\ escKey = RELEASE
    /\ shouldClose = FALSE
    /\ InitClock

\* The camera callbacks, as dispatched by glfwPollEvents.  They read and
\* write only the camera and mouse globals, which no step of main writes.
InitCameraSpec == FirstFrameAt("poll") /\ InitCamera /\ InitGridIdle
NextCamera == mouse_callback \/ scroll_callback
SpecCamera == InitCameraSpec /\ [][NextCamera]_vars

\* The grid computation of the draw pass, for every cell and both builds.
InitGridSpec ==
    /\ FirstFrameAt("draw")
    /\ InitCamera
    /\ grow \in 0 .. GRID - 1
    /\ gcol \in 0 .. GRID - 1
    /\ build \in Builds
    /\ gx = 0
    /\ gz = 0
    /\ dd = 0
    /\ gdone = FALSE
NextGrid == sculptureCell
SpecGrid == InitGridSpec /\ [][NextGrid]_vars

\* The values the draw pass computes over the whole grid, per build.
gridTable ==
    [b \in Builds |->
        [rc \in Cells |->
            gridDist(b, gridCoord(b, rc[2]), gridCoord(b, rc[1]))]]

\* ================================================================ claims

\* C1.  The pause flag flips exactly on a rising edge of the sampled SPACE
\* key: paused changes in a step if and only if that step is processInput
\* sampling PRESS while the previous sample (prev, initially RELEASE) was
\* RELEASE; prev always becomes the sample just taken.  A key held over
\* several frames therefore flips paused once.
C1_PauseTogglesOnRisingEdge ==
    /\ (prev = RELEASE /\ ~paused)
    /\ [][ /\ (paused' # paused)
                <=> (pc = "input" /\ spaceKey = PRESS /\ prev = RELEASE)
           /\ (pc = "input" => prev' = spaceKey)
           /\ (pc # "input" => prev' = prev) ]_vars

\* C1 witness: a frame that began paused sampled SPACE as PRESS and is still
\* paused after processInput: the key was held from the frame that paused.
C1_Witness ==
    /\ pc = "draw"
    /\ frameStartPaused
    /\ paused
    /\ prev = PRESS

\* C2.  While running, animTime never decreases from one step to the next;
\* while paused it does not change, whatever the wall clock does.
C2_AnimTimeMonotoneOrFrozen ==
    [][ /\ (~paused => animTime' >= animTime)
        /\ (paused => animTime' = animTime) ]_vars

\* C2 witness: wall time has passed in paused frames after animTime had
\* advanced.
C2_Witness ==
    /\ paused
    /\ pausedWall >= MaxDt
    /\ animTime > 0
    /\ pc = "input"

\* C3.  lastFrame is the time of the latest frame whether paused or not, each
\* change of animTime is exactly the wall time since the preceding frame, and
\* animTime is the wall time minus the wall time of the paused frames.
C3_NoTimeJumpOnResume ==
    /\ [](lastFrame = wall /\ animTime = wall - pausedWall)
    /\ [][ animTime' = animTime \/ animTime' = animTime + (wall' - wall) ]_vars

\* C3 witness: after paused frames in which wall time passed, a frame that
\* began running has advanced animTime by its own dt.
C3_Witness ==
    /\ pc = "input"
    /\ ~frameStartPaused
    /\ pausedWall > 0
    /\ dt > 0
    /\ animTime = headAnim + dt

\* C4 as stated.  Every failure of a collaborator is reported and none ends
\* the program before the render loop.
C4_Original ==
    failed # {} => (diag # {} /\ ~(pc = "exit" /\ exitCode = "-1"))

\* C4 amended.  A shader compile or program link failure is reported with
\* its diagnostic and does not abort: main goes on into the render loop with
\* the program object created but not linked.  A window creation failure is
\* not reported and a GL loader failure is reported as "GLAD failed"; both
\* end main with -1 before any program is built, and nothing else does.
C4_ShaderFailuresDoNotAbort ==
    /\ []( /\ ("compile" \in failed => "SHADER ERROR" \in diag)
           /\ ("link" \in failed
                 => /\ "LINK ERROR" \in diag
                    /\ \E p \in {"prog", "lightProg"} :
                          res[p] = "live" /\ ~linked[p])
           /\ ("glad" \in failed
                 => "GLAD failed" \in diag /\ pc = "exit" /\ exitCode = "-1")
           /\ ("window" \in failed
                 => diag = {} /\ pc = "exit" /\ exitCode = "-1")
           /\ (exitCode = "-1" => failed \in {{"window"}, {"glad"}})
           /\ (failed \cap {"compile", "link"} # {} /\ pc = "exit"
                 => exitCode = "0" /\ shouldClose) )
    /\ ((failed \cap {"compile", "link"} # {} /\ pc \in {"lightProg", "buffers"})
          ~> (pc = "head"))

\* C4 witness: the draw pass runs after a compile and a link failure.
C4_Witness ==
    /\ pc = "draw"
    /\ {"compile", "link"} \subseteq failed
    /\ ~linked["prog"]
    /\ res["prog"] = "live"

\* C5 as stated.  When main has returned, GLFW and every object that was
\* created have been released; inside the frame loop all of them are live.
C5_Original ==
    /\ (pc = "exit"
          => /\ glfw # "live"
             /\ \A r \in Resources : res[r] # "live")
    /\ (pc \in LoopPcs => \A r \in Resources : res[r] = "live")

\* C6.  The pitch stays within [-89, 89] degrees and the zoom within
\* [1, 90], whatever mouse and scroll events arrive.
C6_PitchAndZoomClamped ==
    /\ 0 - PitchLimit <= pitch
    /\ pitch <= PitchLimit
    /\ ZoomMin <= zoom
    /\ zoom <= ZoomMax

\* C6 witness: pitch saturated at 89, zoom at 1, and the yaw (not clamped)
\* more than a full turn away from zero.
C6_Witness ==
    /\ pitch = PitchLimit
    /\ zoom = ZoomMin
    /\ yaw > 3600

\* C7.  The loop is left only from its head and only with the close request
\* set; with the request set at the head no further frame starts; a request
\* made by processInput (ESC) leaves the rest of the frame to run (draw,
\* swap, poll); the request is never withdrawn; and once it is set main
\* reaches teardown and returns 0.
C7_CloseRequestEndsLoop ==
    /\ [][ /\ (pc \in LoopPcs /\ pc' \notin LoopPcs)
                => (pc = "head" /\ shouldClose /\ pc' = "teardown")
           /\ (pc = "head" /\ shouldClose => pc' = "teardown")
           /\ (pc = "head" /\ ~shouldClose => pc' = "time")
           /\ (pc = "input" => pc' = "draw")
           /\ (pc = "input" /\ escKey = PRESS => shouldClose')
           /\ (pc = "draw" => pc' = "swap")
           /\ (pc = "swap" => pc' = "poll")
           /\ (pc = "poll" => pc' = "head")
           /\ (shouldClose => shouldClose') ]_vars
    /\ (shouldClose ~> (pc = "exit" /\ exitCode = "0"))

\* C7 witness: main has returned 0 after ESC was sampled PRESS.
C7_Witness ==
    /\ pc = "exit"
    /\ exitCode = "0"
    /\ escKey = PRESS
    /\ shouldClose

GridTol == 2 ^ 4         \* 2^-19, in units of 2^-23
Corners == {<<0, 0>>, <<0, GRID - 1>>, <<GRID - 1, 0>>, <<GRID - 1, GRID - 1>>}
Centre == {<<4, 4>>, <<4, 5>>, <<5, 4>>, <<5, 5>>}

\* C8 as stated, for the build without contraction.  The coordinates are
\* exact mirror images, d is positive, d is the maximum exactly at the four
\* corners and the minimum exactly at the four cells nearest the centre.
C8_Original ==
    (gdone /\ build = "separate") =>
        /\ gx = 0 - gridCoord(build, GRID - 1 - gcol)
        /\ gz = 0 - gridCoord(build, GRID - 1 - grow)
        /\ dd > 0
        /\ (<<grow, gcol>> \in Corners
              <=> \A rc \in Cells : gridTable[build][rc] <= dd)
        /\ (<<grow, gcol>> \in Centre
              <=> \A rc \in Cells : gridTable[build][rc] >= dd)

\* C8 amended.  In binary32 the coordinates are mirror images only to within
\* 2^-19; d is positive in every cell; every corner cell has a larger d than
\* every other cell, the corners agreeing to within 2^-19, and (0,0) attains
\* the maximum; each of the four cells nearest the centre has a smaller d
\* than every other cell, the four agreeing to within 2^-19, and the minimum
\* is attained at (5,5) only.
C8_GridCentredWithinRounding ==
    gdone =>
        LET cell == <<grow, gcol>>
            T == gridTable[build]
        IN  /\ Abs(gx + gridCoord(build, GRID - 1 - gcol)) <= GridTol
            /\ Abs(gz + gridCoord(build, GRID - 1 - grow)) <= GridTol
            /\ dd > 0
            /\ dd = T[cell]
            /\ (cell \in Corners =>
                  /\ \A rc \in Cells \ Corners : T[rc] < dd
                  /\ \A rc \in Corners : Abs(T[rc] - dd) <= GridTol)
            /\ (cell = <<0, 0>> => \A rc \in Cells : T[rc] <= dd)
            /\ (cell \in Centre =>
                  /\ \A rc \in Cells \ Centre : T[rc] > dd
                  /\ \A rc \in Centre : Abs(T[rc] - dd) <= GridTol)
            /\ ((\A rc \in Cells : T[rc] >= dd) <=> cell = <<5, 5>>)

\* C8 witness: the cell (4,4) computed without contraction; its d is not the
\* minimum of the grid.
C8_Witness ==
    /\ gdone
    /\ build = "separate"
    /\ <<grow, gcol>> = <<4, 4>>
    /\ dd > gridTable[build][<<5, 5>>]

\* C9.  animTime is the sum of dt over the frames that began running; and
\* processInput, which comes after the accumulation, leaves animTime alone:
\* in the frame that detects the pause press animTime already holds that
\* frame's dt, in the frame that detects the resume press it holds none.
C9_ToggleActsFromNextFrame ==
    /\ [](animTime = runSum)
    /\ [][ pc = "input" =>
             /\ animTime' = animTime
             /\ (paused' # paused
                   => animTime = headAnim + (IF paused THEN 0 ELSE dt)) ]_vars

\* C9 witness: the frame that detected the pause press has advanced animTime
\* by its dt.
C9_Witness ==
    /\ pc = "draw"
    /\ paused
    /\ ~frameStartPaused
    /\ dt > 0
    /\ animTime = headAnim + dt

\* C10.  firstMouse never becomes true again; the event that clears it does
\* not change yaw or pitch; every later event turns the camera by the delta
\* from the preceding event's position.
C10_FirstMouseEventIsZeroDelta ==
    [][ /\ (firstMouse' => firstMouse)
        /\ (firstMouse =>
              /\ yaw' = yaw
              /\ pitch' = pitch
              /\ (firstMouse' => lastX' = lastX /\ lastY' = lastY))
        /\ (~firstMouse =>
              /\ yaw' = yaw + (lastX' - lastX)
              /\ pitch' = clamp(pitch + (lastY - lastY'),
                                0 - PitchLimit, PitchLimit)) ]_vars

\* C10 witness: the first event arrived away from the screen centre and the
\* camera has not turned.
C10_Witness ==
    /\ ~firstMouse
    /\ lastX # SCR_W \div 2
    /\ lastY # SCR_H \div 2
    /\ yaw = YawInit
    /\ pitch = 0

====
